---- MODULE Spec2Model ----
(***************************************************************************)
(* A model of the dominator template compiler:                             *)
(*   Tokenizer / Parser   (compiler/parser)                                *)
(*   SSABuilder + passes  (compiler/ssa)                                   *)
(*   CodeGenerator        (compiler/codegen)                               *)
(* Strings are sequences of one-character strings, so that the scanners    *)
(* read them character by character as the code does.  Positions are the   *)
(* code's 0-based indices: source[pos] is source[pos + 1] here.            *)
(* Token and node source locations (line/column) are not modelled: no      *)
(* stage reads them; only the start offset of the tag being read is kept.  *)
(* Two history variables record what the tokenizer did: iter is the last   *)
(* loop iteration it completed (which loop, the position before and after) *)
(* and unterminated says that a reader returned a token at end-of-input    *)
(* without having read the tag's '>' or the expression's balancing '}'.    *)
(***************************************************************************)
EXTENDS Integers, Sequences, FiniteSets, TLC

VARIABLES
  input, options, pc,
  source, pos, tokens, tokStart, tagName, attributes, attrName, expr, depth,
  iter, unterminated,
  ppos, ast, staticCall,
  varCounter, insts, variables, visitResult, failed,
  ip, output, indent, varMap, staticCache, hasEntry,
  callNo, firstCall, mixed

callArgs == <<input>>
tokVars == <<source, pos, tokens, tokStart, tagName, attributes, attrName, expr, depth,
            iter, unterminated>>
parseVars == <<ppos, ast, staticCall>>
ssaVars == <<varCounter, insts, variables, visitResult, failed, hasEntry>>
genVars == <<options, ip, output, indent, varMap, staticCache>>
histVars == <<callNo, firstCall, mixed>>
vars == <<callArgs, pc, tokVars, parseVars, ssaVars, genVars, histVars>>

---------------------------------------------------------------------------
(* Bounds of the model.                                                    *)

\* longest raw input of the tokenizer specification
MaxLen == 4
\* how far past the end of the source the unguarded brace loop is followed
MaxOverrun == 2
\* number of template pieces concatenated into a source of the pipeline specification
MaxPieces == 2
\* longest instruction list drawn directly as generator input
MaxInsts == 2
\* largest number of distinct names in one generation call
MaxNames == 28
\* number of compile calls made one after the other
MaxCalls == 3

---------------------------------------------------------------------------
(* Characters and strings.                                                 *)

Lower == {"a","b","c","d","e","f","g","h","i","j","k","l","m",
          "n","o","p","q","r","s","t","u","v","w","x","y","z"}
Upper == {"A","B","C","D","E","F","G","H","I","J","K","L","M",
          "N","O","P","Q","R","S","T","U","V","W","X","Y","Z"}
Digit == {"0","1","2","3","4","5","6","7","8","9"}

\* /[a-zA-Z0-9_-]/
IdentChars == Lower \cup Upper \cup Digit \cup {"_", "-"}
\* /[a-zA-Z0-9_]/
WordChars == Lower \cup Upper \cup Digit \cup {"_"}
\* /\s/
WsChars == {" ", "\t", "\n", "\r", "\f"}

\* what `str += undefined` appends
UndefinedText == <<"u","n","d","e","f","i","n","e","d">>

RECURSIVE TrimStart(_)
TrimStart(s) ==
  IF s # <<>> /\ Head(s) \in WsChars THEN TrimStart(Tail(s)) ELSE s

RECURSIVE TrimEnd(_)
TrimEnd(s) ==
  IF s # <<>> /\ s[Len(s)] \in WsChars THEN TrimEnd(SubSeq(s, 1, Len(s) - 1)) ELSE s

\* String.prototype.trim
Trim(s) == TrimEnd(TrimStart(s))

\* source.slice(from, to) with 0-based offsets
Slice(s, from, to) == SubSeq(s, from + 1, to)

---------------------------------------------------------------------------
(* Tokenizer.                                                              *)

\* peek(): source[pos] || ''
Peek(src, p) == IF p < Len(src) THEN src[p + 1] ELSE ""

\* the loop `while (peek() && test(peek())) advance()` for a test that is
\* membership in a character class: the position where it stops
RECURSIVE ScanIn(_, _, _)
ScanIn(src, p, class) ==
  IF p < Len(src) /\ src[p + 1] \in class THEN ScanIn(src, p + 1, class) ELSE p

\* the loop `while (peek() && peek() !== stop) advance()`
RECURSIVE ScanNotIn(_, _, _)
ScanNotIn(src, p, stops) ==
  IF p < Len(src) /\ src[p + 1] \notin stops THEN ScanNotIn(src, p + 1, stops) ELSE p

\* skipWhitespace(): the position after it
SkipWhitespace(src, p) == ScanIn(src, p, WsChars)

NoData == [tag |-> <<>>, attributes |-> <<>>]

\* a token; for open and selfClose tokens `data` is what JSON.parse gives back
\* from the JSON text the tokenizer stores in token.value
Token(type, value, data) == [type |-> type, value |-> value, data |-> data]

\* an attribute value: the boolean true, or a string
BoolTrue == [b |-> TRUE, s |-> <<>>]
Str(s) == [b |-> FALSE, s |-> s]

\* attributes[name] = value on an object whose keys keep insertion order
RECURSIVE SetAttr(_, _, _)
SetAttr(attrs, name, value) ==
  IF attrs = <<>> THEN << <<name, value>> >>
  ELSE IF Head(attrs)[1] = name THEN << <<name, value>> >> \o Tail(attrs)
  ELSE <<Head(attrs)>> \o SetAttr(Tail(attrs), name, value)

\* readCloseTag() at p: the token and the position after it
ReadCloseTag(src, p) ==
  LET p2 == p + 2
      e == ScanNotIn(src, p2, {">"})
      tag == Slice(src, p2, e)
      p3 == IF Peek(src, e) = ">" THEN e + 1 ELSE e
  IN [tok |-> Token("close", Trim(tag), NoData), pos |-> p3, closed |-> Peek(src, e) = ">"]

\* a scan that takes the first '}' as the end, whatever the depth
RECURSIVE ExprLoopFlat(_, _, _, _)
ExprLoopFlat(src, p, d, acc) ==
  IF d > 0 /\ p < Len(src)
  THEN LET char == src[p + 1]
           d2 == IF char = "}" THEN 0 ELSE d
       IN ExprLoopFlat(src, p + 1, d2, IF d2 > 0 THEN Append(acc, char) ELSE acc)
  ELSE [pos |-> p, expr |-> acc, depth |-> d]

\* the loop of readExpression(): guarded by both depth and end of input
RECURSIVE ExprLoop(_, _, _, _)
ExprLoop(src, p, d, acc) ==
  IF d > 0 /\ p < Len(src)
  THEN LET char == src[p + 1]
           d1 == IF char = "{" THEN d + 1 ELSE d
           d2 == IF char = "}" THEN d1 - 1 ELSE d1
       IN ExprLoop(src, p + 1, d2, IF d2 > 0 THEN Append(acc, char) ELSE acc)
  ELSE [pos |-> p, expr |-> acc, depth |-> d]

\* readExpression() at p
ReadExpression(src, p) ==
  LET r == ExprLoop(src, p + 1, 1, <<>>)
  IN [tok |-> Token("expr", Trim(r.expr), NoData), pos |-> r.pos, closed |-> r.depth = 0]

\* a readText() that also ends a text run at whitespace
ReadTextToWhitespace(src, p) ==
  LET e == ScanNotIn(src, p, {"<", "{"} \cup WsChars)
  IN [tok |-> Token("text", Trim(Slice(src, p, e)), NoData), pos |-> e, closed |-> TRUE]

\* readText() at p
ReadText(src, p) ==
  LET e == ScanNotIn(src, p, {"<", "{"})
  IN [tok |-> Token("text", Trim(Slice(src, p, e)), NoData), pos |-> e, closed |-> TRUE]

NoIter == [loop |-> "none", from |-> 0, to |-> 0]
Iter(loop, from, to) == [loop |-> loop, from |-> from, to |-> to]

\* new Tokenizer(source): the fields the constructor sets
TokenizerInit(raw) ==
  /\ source' = Trim(raw)
  /\ pos' = 0
  /\ tokens' = <<>>
  /\ tokStart' = 0
  /\ tagName' = <<>>
  /\ attributes' = <<>>
  /\ attrName' = <<>>
  /\ expr' = <<>>
  /\ depth' = 0
  /\ iter' = NoIter
  /\ unterminated' = FALSE

\* one iteration of the main loop of tokenize(); an open tag is begun here and
\* finished by the attribute loop
TokenizeIter ==
  /\ pc = "main"
  /\ pos < Len(source)
  /\ LET p == SkipWhitespace(source, pos)
         r == IF Peek(source, p) = "<" /\ Peek(source, p + 1) = "/"
              THEN ReadCloseTag(source, p)
              ELSE IF Peek(source, p) = "{" THEN ReadExpression(source, p)
              ELSE ReadText(source, p)
     IN IF Peek(source, p) = "<" /\ Peek(source, p + 1) # "/"
        THEN LET p2 == SkipWhitespace(source, p + 1)
                 e == ScanIn(source, p2, IdentChars)
             IN /\ tokStart' = pos
                /\ tagName' = Slice(source, p2, e)
                /\ attributes' = <<>>
                /\ pos' = SkipWhitespace(source, e)
                /\ pc' = "attrLoop"
                /\ UNCHANGED <<tokens, iter, unterminated>>
        ELSE /\ tokens' = Append(tokens, r.tok)
             /\ pos' = r.pos
             /\ iter' = Iter("main", pos, r.pos)
             /\ unterminated' = (unterminated \/ ~r.closed)
             /\ UNCHANGED <<pc, tokStart, tagName, attributes>>
  /\ UNCHANGED <<source, attrName, expr, depth>>
  /\ UNCHANGED <<callArgs, parseVars, ssaVars, genVars, histVars>>

\* readAttribute() at p, up to its return or to the start of its brace loop
ReadAttribute(src, p) ==
  LET e == ScanIn(src, p, IdentChars)
      name == Slice(src, p, e)
      p1 == SkipWhitespace(src, e)
      p2 == SkipWhitespace(src, p1 + 1)
  IN IF Peek(src, p1) # "="
     THEN [done |-> TRUE, name |-> name, value |-> BoolTrue, pos |-> p1]
     ELSE IF Peek(src, p2) \in {"\"", "'"}
     THEN LET e2 == ScanNotIn(src, p2 + 1, {Peek(src, p2)})
          IN [done |-> TRUE, name |-> name, value |-> Str(Slice(src, p2 + 1, e2)),
              pos |-> e2 + 1]
     ELSE IF Peek(src, p2) = "{"
     THEN [done |-> FALSE, name |-> name, value |-> BoolTrue, pos |-> p2 + 1]
     ELSE LET e2 == ScanIn(src, p2, WordChars)
          IN [done |-> TRUE, name |-> name, value |-> Str(Slice(src, p2, e2)), pos |-> e2]

\* one iteration of the attribute loop of readOpenTag()
AttrLoopIter ==
  /\ pc = "attrLoop"
  /\ Peek(source, pos) \notin {"", ">", "/"}
  /\ LET r == ReadAttribute(source, pos)
     IN IF r.done
        THEN /\ attributes' = SetAttr(attributes, r.name, r.value)
             /\ pos' = SkipWhitespace(source, r.pos)
             /\ iter' = Iter("attr", pos, SkipWhitespace(source, r.pos))
             /\ UNCHANGED <<pc, attrName, expr, depth>>
        ELSE /\ attrName' = r.name
             /\ expr' = <<>>
             /\ depth' = 1
             /\ pos' = r.pos
             /\ pc' = "braceLoop"
             /\ UNCHANGED <<attributes, iter>>
  /\ UNCHANGED <<source, tokens, tokStart, tagName, unterminated>>
  /\ UNCHANGED <<callArgs, parseVars, ssaVars, genVars, histVars>>

\* one iteration of the brace-depth loop of readAttribute(); the iteration that
\* brings depth to 0 returns the attribute to the attribute loop
BraceLoopIter ==
  /\ pc = "braceLoop"
  /\ depth > 0
  /\ pos < Len(source) + MaxOverrun
  /\ LET atEnd == pos >= Len(source)
         char == IF atEnd THEN "" ELSE source[pos + 1]
         d1 == IF char = "{" THEN depth + 1 ELSE depth
         d2 == IF char = "}" THEN d1 - 1 ELSE d1
         acc == IF d2 > 0
                THEN (IF atEnd THEN expr \o UndefinedText ELSE Append(expr, char))
                ELSE expr
     IN /\ iter' = Iter("brace", pos, pos + 1)
        /\ IF d2 > 0
           THEN /\ depth' = d2
                /\ expr' = acc
                /\ pos' = pos + 1
                /\ UNCHANGED <<pc, attributes, attrName>>
           ELSE /\ attributes' = SetAttr(attributes, attrName, Str(<<"{">> \o acc \o <<"}">>))
                /\ pos' = SkipWhitespace(source, pos + 1)
                /\ depth' = 0
                /\ expr' = <<>>
                /\ attrName' = <<>>
                /\ pc' = "attrLoop"
  /\ UNCHANGED <<source, tokens, tokStart, tagName, unterminated>>
  /\ UNCHANGED <<callArgs, parseVars, ssaVars, genVars, histVars>>

\* the end of readOpenTag(): the attribute loop is left and the token returned
OpenTagReturn ==
  /\ pc = "attrLoop"
  /\ Peek(source, pos) \in {"", ">", "/"}
  /\ LET selfClose == Peek(source, pos) = "/"
         p1 == IF selfClose THEN pos + 1 ELSE pos
         p2 == IF Peek(source, p1) = ">" THEN p1 + 1 ELSE p1
     IN /\ tokens' = Append(tokens,
                        Token(IF selfClose THEN "selfClose" ELSE "open", <<>>,
                              [tag |-> tagName, attributes |-> attributes]))
        /\ pos' = p2
        /\ iter' = Iter("main", tokStart, p2)
        /\ unterminated' = (unterminated \/ Peek(source, p1) # ">")
  /\ pc' = "main"
  /\ tagName' = <<>>
  /\ attributes' = <<>>
  /\ UNCHANGED <<source, tokStart, attrName, expr, depth>>
  /\ UNCHANGED <<callArgs, parseVars, ssaVars, genVars, histVars>>

\* the main loop of tokenize() is left: eof is pushed and the tokens returned
TokenizeReturn ==
  /\ pc = "main"
  /\ pos >= Len(source)
  /\ tokens' = Append(tokens, Token("eof", <<>>, NoData))
  /\ pc' = "tokenized"
  /\ UNCHANGED <<source, pos, tokStart, tagName, attributes, attrName, expr, depth,
                 iter, unterminated>>
  /\ UNCHANGED <<callArgs, parseVars, ssaVars, genVars, histVars>>

---------------------------------------------------------------------------
(* Parser.                                                                 *)

\* an AST node; isStatic is "true", "false" or "undefined" (the field is not set).
\* Text and Expression nodes carry no tag, attributes or children.
Node(type, tag, attrs, children, value, isStatic) ==
  [type |-> type, tag |-> tag, attributes |-> attrs, children |-> children,
   value |-> value, isStatic |-> isStatic]

\* current(): tokens[pos], or an eof stand-in past the end (current() is then
\* undefined and every caller treats that as a stop)
Current(toks, p) == IF p < Len(toks) THEN toks[p + 1] ELSE Token("none", <<>>, NoData)

\* /^[A-Z]/.test(tag)
IsComponentTag(tag) == tag # <<>> /\ tag[1] \in Upper

RECURSIVE ParseChildren(_, _, _)
RECURSIVE ParseElement(_, _)

\* parseText() / parseExpression() / parseElement() chosen by parseNode();
\* the result is the node (in a sequence, empty for null) and the new position
ParseNode(toks, p) ==
  LET token == Current(toks, p)
  IN CASE token.type = "text" ->
            [nodes |-> <<Node("Text", <<>>, <<>>, <<>>, token.value, "true")>>, pos |-> p + 1]
       [] token.type = "expr" ->
            [nodes |-> <<Node("Expression", <<>>, <<>>, <<>>, token.value, "false")>>,
             pos |-> p + 1]
       [] token.type \in {"open", "selfClose"} -> ParseElement(toks, p)
       [] token.type \in {"eof", "none"} -> [nodes |-> <<>>, pos |-> p]
       [] OTHER -> [nodes |-> <<>>, pos |-> p + 1]

\* parseChildren(): the loop, with the children gathered so far
ParseChildren(toks, p, acc) ==
  IF Current(toks, p).type \notin {"close", "eof", "none"}
  THEN LET r == ParseNode(toks, p)
       IN ParseChildren(toks, r.pos, acc \o r.nodes)
  ELSE [nodes |-> acc, pos |-> p]

\* parseElement()
ParseElement(toks, p) ==
  LET token == toks[p + 1]
      type == IF IsComponentTag(token.data.tag) THEN "Component" ELSE "Element"
  IN IF token.type = "selfClose"
     THEN [nodes |-> <<Node(type, token.data.tag, token.data.attributes, <<>>, <<>>,
                            "undefined")>>,
           pos |-> p + 1]
     ELSE LET r == ParseChildren(toks, p + 1, <<>>)
              p2 == IF Current(toks, r.pos).type = "close" THEN r.pos + 1 ELSE r.pos
          IN [nodes |-> <<Node(type, token.data.tag, token.data.attributes, r.nodes, <<>>,
                               "undefined")>>,
              pos |-> p2]

\* no call of isStaticNode() has been made on the AST
NoStaticCall ==
  [called |-> FALSE, node |-> Node("Program", <<>>, <<>>, <<>>, <<>>, "undefined"),
   result |-> TRUE]

\* Parser.parse() once the tokenizer has returned: the Program node
Parse ==
  /\ pc = "tokenized"
  /\ LET r == ParseChildren(tokens, 0, <<>>)
     IN /\ ast' = Node("Program", <<>>, <<>>, r.nodes, <<>>, "undefined")
        /\ ppos' = r.pos
  /\ staticCall' = NoStaticCall
  /\ pc' = "parsed"
  /\ UNCHANGED <<callArgs, tokVars, ssaVars, genVars, histVars>>

\* value.startsWith('{') on an attribute value (false for the boolean true)
IsDynamicMarker(v) == ~v.b /\ v.s # <<>> /\ v.s[1] = "{"

RECURSIVE isStaticNode(_)
isStaticNode(node) ==
  IF node.type = "Expression" THEN FALSE
  ELSE IF node.type = "Text" THEN TRUE
  ELSE IF \E i \in 1..Len(node.attributes) : IsDynamicMarker(node.attributes[i][2])
  THEN FALSE
  ELSE \A i \in 1..Len(node.children) : isStaticNode(node.children[i])

\* the node and every node below it
RECURSIVE NodesOf(_)
NodesOf(node) ==
  {node} \cup UNION {NodesOf(node.children[i]) : i \in 1..Len(node.children)}

\* a call isStaticNode(node) on a node of the parsed AST
IsStaticNodeCall ==
  /\ pc = "parsed"
  /\ \E node \in NodesOf(ast) :
       staticCall' = [called |-> TRUE, node |-> node, result |-> isStaticNode(node)]
  /\ UNCHANGED <<ppos, ast, pc>>
  /\ UNCHANGED <<callArgs, tokVars, ssaVars, genVars, histVars>>

---------------------------------------------------------------------------
(* SSA builder.                                                            *)

\* String(n) for a counter
RECURSIVE Decimal(_)
Decimal(n) ==
  LET d == <<"0","1","2","3","4","5","6","7","8","9">>[(n % 10) + 1]
  IN IF n < 10 THEN <<d>> ELSE Append(Decimal(n \div 10), d)

\* a newVar() that leaves the counter out of the name
newVarPrefixOnly(prefix, n) == prefix

\* newVar(prefix) with the counter at n: `${prefix}${n}`
newVar(prefix, n) == prefix \o Decimal(n)

P_el == <<"e","l">>
P_txt == <<"t","x","t">>
P_expr == <<"e","x","p","r">>
P_comp == <<"c","o","m","p">>
P_props == <<"p","r","o","p","s">>
P_val == <<"v","a","l">>
P_const == <<"c","o","n","s","t">>
P_fold == <<"f","o","l","d">>

\* inst.value: absent, a string, the boolean true, or an attributes object
NoVal == [k |-> "none", s |-> <<>>, o |-> <<>>]
StrVal(s) == [k |-> "str", s |-> s, o |-> <<>>]
TrueVal == [k |-> "bool", s |-> <<>>, o |-> <<>>]
ObjVal(attrs) == [k |-> "obj", s |-> <<>>, o |-> attrs]
AttrVal(v) == IF v.b THEN TrueVal ELSE StrVal(v.s)

\* an instruction; dest is <<>> when absent, isStatic is metadata.isStatic
\* ("undefined" when the metadata has none), component is metadata.component
Inst(op, dest, args, value, isStatic, component) ==
  [op |-> op, dest |-> dest, args |-> args, value |-> value,
   isStatic |-> isStatic, component |-> component]

\* the builder while it visits: the counter, the entry block's instructions,
\* and whether an Error was thrown
Builder(n, is, err) == [n |-> n, insts |-> is, err |-> err]

\* emit(instruction)
Emit(b, inst) == Builder(b.n, Append(b.insts, inst), b.err)

\* visitValue(value): the builder after it and the name returned
visitValue(b, v) ==
  IF ~v.b /\ v.s # <<>> /\ v.s[1] = "{" /\ v.s[Len(v.s)] = "}"
  THEN LET dest == newVar(P_val, b.n)
       IN [b |-> Emit(Builder(b.n + 1, b.insts, b.err),
                      Inst("load", dest, <<>>, StrVal(SubSeq(v.s, 2, Len(v.s) - 1)),
                           "false", <<>>)),
           ret |-> dest]
  ELSE LET dest == newVar(P_const, b.n)
       IN [b |-> Emit(Builder(b.n + 1, b.insts, b.err),
                      Inst("alloc", dest, <<>>, AttrVal(v), "true", <<>>)),
           ret |-> dest]

\* the attribute loop of visitElement()
RECURSIVE VisitAttributes(_, _, _)
VisitAttributes(b, dest, attrs) ==
  IF attrs = <<>> THEN b
  ELSE LET key == Head(attrs)[1]
           value == Head(attrs)[2]
           r == visitValue(b, value)
           b2 == Emit(r.b, Inst("set_prop", <<>>, <<dest, key, r.ret>>, NoVal,
                                IF IsDynamicMarker(value) THEN "false" ELSE "true", <<>>))
       IN VisitAttributes(b2, dest, Tail(attrs))

RECURSIVE visitNode(_, _)
RECURSIVE VisitChildren(_, _, _)
RECURSIVE VisitAll(_, _, _)

\* the child loop of visitElement()
VisitChildren(b, dest, children) ==
  IF children = <<>> \/ b.err THEN b
  ELSE LET r == visitNode(b, Head(children))
           b2 == IF r.ret # <<>> /\ ~r.b.err
                 THEN Emit(r.b, Inst("append_child", <<>>, <<dest, r.ret>>, NoVal,
                                     "undefined", <<>>))
                 ELSE r.b
       IN VisitChildren(b2, dest, Tail(children))

\* children.map(c => visitNode(c)): the builder after it and the names returned
VisitAll(b, children, acc) ==
  IF children = <<>> \/ b.err THEN [b |-> b, rets |-> acc]
  ELSE LET r == visitNode(b, Head(children))
       IN VisitAll(r.b, Tail(children), Append(acc, r.ret))

visitElement(b, node) ==
  IF node.tag = <<>> THEN [b |-> Builder(b.n, b.insts, TRUE), ret |-> <<>>]
  ELSE LET dest == newVar(P_el, b.n)
           b1 == Emit(Builder(b.n + 1, b.insts, b.err),
                      Inst("create_element", dest, <<node.tag>>, NoVal, node.isStatic, <<>>))
           b2 == VisitAttributes(b1, dest, node.attributes)
           b3 == VisitChildren(b2, dest, node.children)
       IN [b |-> b3, ret |-> dest]

visitText(b, node) ==
  LET dest == newVar(P_txt, b.n)
  IN [b |-> Emit(Builder(b.n + 1, b.insts, b.err),
                 Inst("create_text", dest, <<>>, StrVal(node.value), "true", <<>>)),
      ret |-> dest]

visitExpression(b, node) ==
  LET dest == newVar(P_expr, b.n)
  IN [b |-> Emit(Builder(b.n + 1, b.insts, b.err),
                 Inst("load", dest, <<>>, StrVal(node.value), "false", <<>>)),
      ret |-> dest]

visitComponent(b, node) ==
  LET dest == newVar(P_comp, b.n)
      propsVar == newVar(P_props, b.n + 1)
      b1 == Emit(Builder(b.n + 2, b.insts, b.err),
                 Inst("alloc", propsVar, <<>>, ObjVal(node.attributes), "undefined", <<>>))
      b2 == Emit(b1, Inst("call", dest, <<node.tag, propsVar>>, NoVal, "undefined", node.tag))
  IN [b |-> b2, ret |-> dest]

\* results.filter(Boolean): the non-empty names
RECURSIVE FilterNonEmpty(_)
FilterNonEmpty(names) ==
  IF names = <<>> THEN <<>>
  ELSE (IF Head(names) # <<>> THEN <<Head(names)>> ELSE <<>>) \o FilterNonEmpty(Tail(names))

visitProgram(b, node) ==
  LET r == VisitAll(b, node.children, <<>>)
      results == FilterNonEmpty(r.rets)
  IN [b |-> r.b, ret |-> IF results = <<>> THEN <<>> ELSE results[Len(results)]]

\* visitNode(): the parser produces no Fragment node, and any other type
\* returns '' without emitting
visitNode(b, node) ==
  CASE node.type = "Program" -> visitProgram(b, node)
    [] node.type = "Element" -> visitElement(b, node)
    [] node.type = "Text" -> visitText(b, node)
    [] node.type = "Expression" -> visitExpression(b, node)
    [] node.type = "Component" -> visitComponent(b, node)
    [] OTHER -> [b |-> b, ret |-> <<>>]

---------------------------------------------------------------------------
(* Optimizer passes.                                                       *)

\* the set `used` of deadCodeElimination(): every argument of every instruction
UsedNames(is) == UNION {{is[i].args[j] : j \in 1..Len(is[i].args)} : i \in 1..Len(is)}

\* the filter of deadCodeElimination()
KeepInst(inst, used) ==
  inst.dest = <<>> \/ inst.dest \in used \/ inst.op = "call" \/ inst.op = "store"

RECURSIVE FilterInsts(_, _)
FilterInsts(is, used) ==
  IF is = <<>> THEN <<>>
  ELSE (IF KeepInst(Head(is), used) THEN <<Head(is)>> ELSE <<>>)
       \o FilterInsts(Tail(is), used)

deadCodeElimination(is) == FilterInsts(is, UsedNames(is))

\* the first loop of constantFolding(): destinations of statically flagged allocs
StaticAllocs(is) ==
  {is[i].dest : i \in {k \in 1..Len(is) : is[k].op = "alloc" /\ is[k].isStatic = "true"}}

\* inst.args.map(...) of constantFolding(): st is the counter, the constants
\* table and the arguments rewritten so far
RECURSIVE FoldArgs(_, _)
FoldArgs(st, args) ==
  IF args = <<>> THEN st
  ELSE IF Head(args) \in st.constants
  THEN LET fresh == newVar(P_fold, st.n)
       IN FoldArgs([n |-> st.n + 1, constants |-> st.constants \cup {fresh},
                    out |-> Append(st.out, fresh)], Tail(args))
  ELSE FoldArgs([n |-> st.n, constants |-> st.constants,
                 out |-> Append(st.out, Head(args))], Tail(args))

\* the second loop of constantFolding() over the instructions
RECURSIVE FoldInsts(_, _, _, _)
FoldInsts(n, constants, is, acc) ==
  IF is = <<>> THEN [n |-> n, insts |-> acc]
  ELSE LET r == FoldArgs([n |-> n, constants |-> constants, out |-> <<>>], Head(is).args)
       IN FoldInsts(r.n, r.constants, Tail(is),
                    Append(acc, [Head(is) EXCEPT !.args = r.out]))

constantFolding(n, is) == FoldInsts(n, StaticAllocs(is), is, <<>>)

\* the key of commonSubexpressionElimination(): op, JSON of args, value
CseKey(inst) == <<inst.op, inst.args, inst.value>>

\* commonSubexpressionElimination(): the alias table ir.variables, as pairs
\* <<destination, first destination with the same key>> in insertion order
RECURSIVE CseLoop(_, _, _)
CseLoop(is, expressions, aliases) ==
  IF is = <<>> THEN aliases
  ELSE LET inst == Head(is)
           seen == {e \in expressions : e[1] = CseKey(inst)}
       IN IF inst.op \in {"create_element", "create_text"} /\ inst.dest # <<>>
          THEN IF seen # {}
               THEN CseLoop(Tail(is), expressions,
                            SetAttr(aliases, inst.dest, (CHOOSE e \in seen : TRUE)[2]))
               ELSE CseLoop(Tail(is), expressions \cup {<<CseKey(inst), inst.dest>>}, aliases)
          ELSE CseLoop(Tail(is), expressions, aliases)

commonSubexpressionElimination(is) == CseLoop(is, {}, <<>>)

\* optimize(): the three passes in their fixed order
optimize(n, is) ==
  LET dce == deadCodeElimination(is)
      folded == constantFolding(n, dce)
  IN [n |-> folded.n, insts |-> folded.insts,
      variables |-> commonSubexpressionElimination(folded.insts)]

\* a builder kept from one buildSSA call to the next: its counter goes on
SharedBuilder == Builder(varCounter, <<>>, FALSE)

\* new SSABuilder(): the counter at 0 and an empty entry block
NewBuilder == Builder(0, <<>>, FALSE)

\* buildSSA(ast): a new SSABuilder, build(ast).  A thrown Error leaves the call
\* without a result.  The name visitNode returns to build() is kept in
\* visitResult, although build() itself drops it.
BuildSSA ==
  /\ pc = "parsed"
  /\ LET r == visitNode(NewBuilder, ast)
         o == optimize(r.b.n, r.b.insts)
     IN IF r.b.err
        THEN /\ failed' = TRUE
             /\ pc' = "failed"
             /\ varCounter' = r.b.n
             /\ insts' = r.b.insts
             /\ variables' = <<>>
             /\ visitResult' = <<>>
        ELSE /\ failed' = FALSE
             /\ pc' = "built"
             /\ varCounter' = o.n
             /\ insts' = o.insts
             /\ variables' = o.variables
             /\ visitResult' = r.ret
  /\ hasEntry' = TRUE
  /\ UNCHANGED <<callArgs, tokVars, parseVars, genVars, histVars>>

---------------------------------------------------------------------------
(* Code generator.                                                         *)

Targets == {"js", "wasm"}

\* CodeGenOptions after the constructor has filled in the defaults
Options == [target : Targets, minify : BOOLEAN, inlineCache : BOOLEAN,
            staticOptimization : BOOLEAN]

\* the options compile() passes on (generateOptimizedCode)
OptimizedOptions ==
  [target |-> "js", minify |-> TRUE, inlineCache |-> TRUE, staticOptimization |-> TRUE]

\* JSON.stringify of a string: quoted, with the escapes of the characters the
\* sources of this model can hold
RECURSIVE JsonEscape(_)
JsonEscape(s) ==
  IF s = <<>> THEN <<>>
  ELSE LET c == Head(s)
       IN (CASE c = "\"" -> <<"\\", "\"">>
             [] c = "\\" -> <<"\\", "\\">>
             [] c = "\n" -> <<"\\", "n">>
             [] c = "\t" -> <<"\\", "t">>
             [] c = "\r" -> <<"\\", "r">>
             [] c = "\f" -> <<"\\", "f">>
             [] OTHER -> <<c>>) \o JsonEscape(Tail(s))

JsonString(s) == <<"\"">> \o JsonEscape(s) \o <<"\"">>

JsonAttr(v) == IF v.b THEN <<"t","r","u","e">> ELSE JsonString(v.s)

RECURSIVE JsonMembers(_)
JsonMembers(attrs) ==
  IF attrs = <<>> THEN <<>>
  ELSE JsonString(Head(attrs)[1]) \o <<":">> \o JsonAttr(Head(attrs)[2])
       \o (IF Len(attrs) > 1 THEN <<",">> ELSE <<>>) \o JsonMembers(Tail(attrs))

\* JSON.stringify(inst.value); an absent value gives undefined, which the
\* template literal prints as "undefined"
JsonStringify(v) ==
  CASE v.k = "str" -> JsonString(v.s)
    [] v.k = "bool" -> <<"t","r","u","e">>
    [] v.k = "obj" -> <<"{">> \o JsonMembers(v.o) \o <<"}">>
    [] OTHER -> UndefinedText

\* `${inst.value}` for a load: the expression text
ValueText(v) ==
  CASE v.k = "str" -> v.s
    [] v.k = "bool" -> <<"t","r","u","e">>
    [] v.k = "obj" -> <<"[","o","b","j","e","c","t"," ","O","b","j","e","c","t","]">>
    [] OTHER -> UndefinedText

\* generateShortName(index)
RECURSIVE ShortNameLoop(_, _)
ShortNameLoop(n, name) ==
  LET chars == <<"a","b","c","d","e","f","g","h","i","j","k","l","m",
                 "n","o","p","q","r","s","t","u","v","w","x","y","z">>
      name2 == <<chars[(n % 26) + 1]>> \o name
      n2 == n \div 26
  IN IF n2 > 0 THEN ShortNameLoop(n2, name2) ELSE name2

generateShortName(index) == ShortNameLoop(index, <<>>)

\* varMap.get(original), <<>> when absent; varMap is the sequence of its entries
\* <<original, short>> in insertion order
MapGet(m, key) ==
  IF \E i \in 1..Len(m) : m[i][1] = key
  THEN m[CHOOSE i \in 1..Len(m) : m[i][1] = key][2]
  ELSE <<>>
MapHas(m, key) == \E i \in 1..Len(m) : m[i][1] = key

\* a getVarName() whose short names wrap around after "z"
getVarNameWrapping(vm, original, minify) ==
  IF MapHas(vm, original) THEN [vm |-> vm, name |-> MapGet(vm, original)]
  ELSE IF minify
  THEN LET short == generateShortName(Len(vm) % 26)
       IN [vm |-> Append(vm, <<original, short>>), name |-> short]
  ELSE [vm |-> vm, name |-> original]

\* getVarName(original): the map after it and the name returned
getVarName(vm, original, minify) ==
  IF MapHas(vm, original) THEN [vm |-> vm, name |-> MapGet(vm, original)]
  ELSE IF minify
  THEN LET short == generateShortName(Len(vm))
       IN [vm |-> Append(vm, <<original, short>>), name |-> short]
  ELSE [vm |-> vm, name |-> original]

\* getVarName over several names, left to right
RECURSIVE GetVarNames(_, _, _, _)
GetVarNames(vm, originals, minify, acc) ==
  IF originals = <<>> THEN [vm |-> vm, names |-> acc]
  ELSE LET r == getVarName(vm, Head(originals), minify)
       IN GetVarNames(r.vm, Tail(originals), minify, Append(acc, r.name))

\* the generator's mutable fields
Gen(out, ind, vm, cache) ==
  [output |-> out, indent |-> ind, varMap |-> vm, staticCache |-> cache]

\* one emitted line: the statement template t with its holes filled by a, and
\* the indentation emit() put before it
Line(t, a, pad) == [t |-> t, a |-> a, pad |-> pad]

\* emit(code)
EmitLine(g, o, t, a) ==
  Gen(Append(g.output, Line(t, a, IF o.minify THEN 0 ELSE g.indent)),
      g.indent, g.varMap, g.staticCache)

indentInc(g) == Gen(g.output, g.indent + 1, g.varMap, g.staticCache)
indentDec(g) ==
  Gen(g.output, IF g.indent - 1 > 0 THEN g.indent - 1 ELSE 0, g.varMap, g.staticCache)
WithVarMap(g, vm) == Gen(g.output, g.indent, vm, g.staticCache)

\* emitHeader()
emitHeader(g, o) ==
  LET g1 == indentInc(EmitLine(g, o, "factory_open", <<>>))
      g2 == EmitLine(g1, o, "use_strict", <<>>)
  IN IF o.staticOptimization THEN EmitLine(g2, o, "cache_decl", <<>>) ELSE g2

\* emitFooter()
emitFooter(g, o) == EmitLine(indentDec(g), o, "factory_close", <<>>)

\* an emitAlloc() that never looks into the static cache
emitAllocUncached(g, o, inst) ==
  LET r == getVarName(g.varMap, inst.dest, o.minify)
  IN EmitLine(WithVarMap(g, r.vm), o, "const_value", <<r.name, JsonStringify(inst.value)>>)

\* emitAlloc(inst)
emitAlloc(g, o, inst) ==
  LET r == getVarName(g.varMap, inst.dest, o.minify)
      g1 == WithVarMap(g, r.vm)
      value == JsonStringify(inst.value)
      cacheKey == <<"a","l","l","o","c","_">> \o value
  IN IF inst.isStatic = "true" /\ o.staticOptimization
     THEN IF MapHas(g.staticCache, cacheKey)
          THEN EmitLine(g1, o, "const_ref", <<r.name, MapGet(g.staticCache, cacheKey)>>)
          ELSE LET g2 == EmitLine(g1, o, "const_value", <<r.name, value>>)
               IN Gen(g2.output, g2.indent, g2.varMap,
                      Append(g2.staticCache, <<cacheKey, r.name>>))
     ELSE EmitLine(g1, o, "const_value", <<r.name, value>>)

\* emitLoad(inst)
emitLoad(g, o, inst) ==
  LET r == getVarName(g.varMap, inst.dest, o.minify)
  IN EmitLine(WithVarMap(g, r.vm), o, "const_expr", <<r.name, ValueText(inst.value)>>)

\* emitStore(inst)
emitStore(g, o, inst) ==
  LET r == GetVarNames(g.varMap, SubSeq(inst.args, 1, 2), o.minify, <<>>)
  IN EmitLine(WithVarMap(g, r.vm), o, "store", r.names)

\* emitCall(inst)
emitCall(g, o, inst) ==
  LET d == IF inst.dest # <<>> THEN getVarName(g.varMap, inst.dest, o.minify)
           ELSE [vm |-> g.varMap, name |-> <<"_">>]
      as == GetVarNames(d.vm, Tail(inst.args), o.minify, <<>>)
  IN IF inst.component # <<>>
     THEN EmitLine(WithVarMap(g, as.vm), o, "call_component",
                   <<d.name, inst.component>> \o as.names)
     ELSE LET f == getVarName(as.vm, Head(inst.args), o.minify)
          IN EmitLine(WithVarMap(g, f.vm), o, "call_value", <<d.name, f.name>> \o as.names)

\* emitCreateElement(inst)
emitCreateElement(g, o, inst) ==
  LET r == getVarName(g.varMap, inst.dest, o.minify)
      g0 == WithVarMap(g, r.vm)
      tag == inst.args[1]
  IN IF inst.isStatic = "true" /\ o.inlineCache
     THEN LET g1 == indentInc(EmitLine(g0, o, "element_cached_open", <<r.name, tag>>))
              g2 == EmitLine(g1, o, "element_cached_h", <<tag>>)
              g3 == EmitLine(g2, o, "element_cached_set", <<tag>>)
              g4 == indentDec(EmitLine(g3, o, "element_cached_return", <<>>))
          IN EmitLine(g4, o, "element_cached_close", <<>>)
     ELSE EmitLine(g0, o, "element_h", <<r.name, tag>>)

\* emitCreateText(inst)
emitCreateText(g, o, inst) ==
  LET r == getVarName(g.varMap, inst.dest, o.minify)
      text == JsonStringify(inst.value)
  IN IF o.minify
     THEN EmitLine(WithVarMap(g, r.vm), o, "text_value", <<r.name, text>>)
     ELSE EmitLine(WithVarMap(g, r.vm), o, "text_createTextVNode", <<r.name, text>>)

\* emitSetProp(inst)
emitSetProp(g, o, inst) ==
  LET r == GetVarNames(g.varMap, <<inst.args[1], inst.args[3]>>, o.minify, <<>>)
      g0 == WithVarMap(g, r.vm)
      key == inst.args[2]
  IN IF inst.isStatic = "true"
     THEN EmitLine(g0, o, "set_prop_static", <<r.names[1], key, r.names[2]>>)
     ELSE EmitLine(EmitLine(g0, o, "set_prop_init", <<r.names[1]>>),
                   o, "set_prop_assign", <<r.names[1], key, r.names[2]>>)

\* emitAppendChild(inst)
emitAppendChild(g, o, inst) ==
  LET r == GetVarNames(g.varMap, SubSeq(inst.args, 1, 2), o.minify, <<>>)
      g0 == WithVarMap(g, r.vm)
  IN EmitLine(EmitLine(g0, o, "append_init", <<r.names[1]>>), o, "append_push", r.names)

\* emitMount(inst)
emitMount(g, o, inst) ==
  LET r == GetVarNames(g.varMap, SubSeq(inst.args, 1, 2), o.minify, <<>>)
  IN EmitLine(WithVarMap(g, r.vm), o, "mount", r.names)

\* emitPatch(inst)
emitPatch(g, o, inst) ==
  LET r == GetVarNames(g.varMap, SubSeq(inst.args, 1, 3), o.minify, <<>>)
  IN EmitLine(WithVarMap(g, r.vm), o, "patch", r.names)

\* emitReturn(inst)
emitReturn(g, o, inst) ==
  IF inst.args # <<>>
  THEN LET r == getVarName(g.varMap, inst.args[1], o.minify)
       IN EmitLine(WithVarMap(g, r.vm), o, "return_value", <<r.name>>)
  ELSE EmitLine(g, o, "return_void", <<>>)

\* a switch with a default case that emits a statement for any other op
emitInstructionWithDefault(g, o, inst) ==
  CASE inst.op = "alloc" -> emitAlloc(g, o, inst)
    [] inst.op = "load" -> emitLoad(g, o, inst)
    [] inst.op = "store" -> emitStore(g, o, inst)
    [] inst.op = "call" -> emitCall(g, o, inst)
    [] inst.op = "create_element" -> emitCreateElement(g, o, inst)
    [] inst.op = "create_text" -> emitCreateText(g, o, inst)
    [] inst.op = "set_prop" -> emitSetProp(g, o, inst)
    [] inst.op = "append_child" -> emitAppendChild(g, o, inst)
    [] inst.op = "mount" -> emitMount(g, o, inst)
    [] inst.op = "patch" -> emitPatch(g, o, inst)
    [] inst.op = "return" -> emitReturn(g, o, inst)
    [] OTHER -> EmitLine(g, o, "unknown_op", <<inst.op>>)

\* emitInstruction(inst): the switch; any other op emits nothing
emitInstruction(g, o, inst) ==
  CASE inst.op = "alloc" -> emitAlloc(g, o, inst)
    [] inst.op = "load" -> emitLoad(g, o, inst)
    [] inst.op = "store" -> emitStore(g, o, inst)
    [] inst.op = "call" -> emitCall(g, o, inst)
    [] inst.op = "create_element" -> emitCreateElement(g, o, inst)
    [] inst.op = "create_text" -> emitCreateText(g, o, inst)
    [] inst.op = "set_prop" -> emitSetProp(g, o, inst)
    [] inst.op = "append_child" -> emitAppendChild(g, o, inst)
    [] inst.op = "mount" -> emitMount(g, o, inst)
    [] inst.op = "patch" -> emitPatch(g, o, inst)
    [] inst.op = "return" -> emitReturn(g, o, inst)
    [] OTHER -> g

SetGen(g) ==
  /\ output' = g.output
  /\ indent' = g.indent
  /\ varMap' = g.varMap
  /\ staticCache' = g.staticCache

\* new CodeGenerator(options): no output, no indentation, empty maps
NewGenerator == Gen(<<>>, 0, <<>>, <<>>)

\* generateCode(ir, options): new CodeGenerator(options), then generate() up to
\* the instruction loop of emitBlocks(); without an entry block emitBlocks()
\* returns at once and generate() ends with the footer
GenerateStart ==
  /\ pc = "built"
  /\ \E o \in Options :
       /\ options' = o
       /\ LET g == emitHeader(NewGenerator, o)
          IN IF hasEntry
             THEN /\ SetGen(indentInc(EmitLine(g, o, "render_open", <<>>)))
                  /\ pc' = "emit"
             ELSE /\ SetGen(emitFooter(g, o))
                  /\ pc' = "done"
  /\ ip' = 0
  /\ UNCHANGED <<callArgs, tokVars, parseVars, ssaVars, histVars>>

\* one iteration of the instruction loop of emitBlocks()
EmitInstruction ==
  /\ pc = "emit"
  /\ ip < Len(insts)
  /\ SetGen(emitInstruction(Gen(output, indent, varMap, staticCache), options, insts[ip + 1]))
  /\ ip' = ip + 1
  /\ UNCHANGED <<options, pc>>
  /\ UNCHANGED <<callArgs, tokVars, parseVars, ssaVars, histVars>>

\* the end of emitBlocks(), then emitFooter(); generate() returns the output
GenerateReturn ==
  /\ pc = "emit"
  /\ ip = Len(insts)
  /\ LET g == Gen(output, indent, varMap, staticCache)
     IN SetGen(emitFooter(EmitLine(indentDec(g), options, "render_close", <<>>), options))
  /\ pc' = "done"
  /\ UNCHANGED <<options, ip>>
  /\ UNCHANGED <<callArgs, tokVars, parseVars, ssaVars, histVars>>

---------------------------------------------------------------------------
(* Inputs and specifications.                                              *)

RECURSIVE Concat(_)
Concat(ss) == IF ss = <<>> THEN <<>> ELSE Head(ss) \o Concat(Tail(ss))

\* every sequence over S of length at most n
SeqsUpTo(S, n) == UNION {[1..k -> S] : k \in 0..n}

\* the characters of the tokenizer specification's inputs: the ones the
\* tokenizer tells apart, one letter and one character it has no rule for
TokAlphabet == {"<", ">", "/", "{", "}", "=", "\"", " ", "a", "!"}

\* the pieces a source of the pipeline specification is made of
Pieces ==
  { <<"<","d",">">>,
    <<"<","/","d",">">>,
    <<"<","b","/",">">>,
    <<"<","d"," ","i","=","\"","x","\"",">">>,
    <<"<","d"," ","k","=","{","y","}",">">>,
    <<"{","m","}">>,
    <<"t">>,
    <<"<","C"," ","p","/",">">>,
    <<"<","C",">">>,
    <<"<","d"," ","q"," ","w","=","z"," ","i","=","\"","{","\"",">">>,
    <<"<",">">> }

NoCall == [input |-> <<>>, options |-> OptimizedOptions, failed |-> FALSE, output |-> <<>>]

\* the state when compile(raw) has constructed its Parser and Tokenizer
Started(raw) ==
  /\ input = raw
  /\ pc = "main"
  /\ source = Trim(raw)
  /\ pos = 0
  /\ tokens = <<>>
  /\ tokStart = 0
  /\ tagName = <<>>
  /\ attributes = <<>>
  /\ attrName = <<>>
  /\ expr = <<>>
  /\ depth = 0
  /\ iter = NoIter
  /\ unterminated = FALSE
  /\ ppos = 0
  /\ ast = Node("Program", <<>>, <<>>, <<>>, <<>>, "undefined")
  /\ staticCall = NoStaticCall
  /\ varCounter = 0
  /\ insts = <<>>
  /\ variables = <<>>
  /\ visitResult = <<>>
  /\ failed = FALSE
  /\ hasEntry = TRUE
  /\ options = OptimizedOptions
  /\ ip = 0
  /\ output = <<>>
  /\ indent = 0
  /\ varMap = <<>>
  /\ staticCache = <<>>
  /\ callNo = 1
  /\ firstCall = NoCall
  /\ mixed = FALSE

\* the tokenizer on every string over TokAlphabet
InitTok == \E raw \in SeqsUpTo(TokAlphabet, MaxLen) : Started(raw)

NextTok ==
  \/ TokenizeIter
  \/ AttrLoopIter
  \/ BraceLoopIter
  \/ OpenTagReturn
  \/ TokenizeReturn

SpecTok == InitTok /\ [][NextTok]_vars

\* one compile call on every source made of at most MaxPieces pieces
Init == \E ps \in SeqsUpTo(Pieces, MaxPieces) : Started(Concat(ps))

Next ==
  \/ TokenizeIter
  \/ AttrLoopIter
  \/ BraceLoopIter
  \/ OpenTagReturn
  \/ TokenizeReturn
  \/ Parse
  \/ BuildSSA
  \/ GenerateStart
  \/ EmitInstruction
  \/ GenerateReturn

Spec == Init /\ [][Next]_vars

\* parse(source) on every such source, then calls of isStaticNode on its nodes
NextStatic ==
  \/ TokenizeIter
  \/ AttrLoopIter
  \/ BraceLoopIter
  \/ OpenTagReturn
  \/ TokenizeReturn
  \/ Parse
  \/ IsStaticNodeCall

SpecStatic == Init /\ [][NextStatic]_vars

---------------------------------------------------------------------------
(* The generator on instruction lists given directly: generateCode(ir,     *)
(* options) is exported and takes any IR.                                  *)

N_c1 == <<"c","1">>
N_c2 == <<"c","2">>
N_v1 == <<"v","1">>
N_e1 == <<"e","1">>
N_e2 == <<"e","2">>
N_t1 == <<"t","1">>
N_f == <<"f">>
N_root == <<"r","o","o","t">>

\* well-formed instructions of every op of SSAOpType
InstPool ==
  { Inst("alloc", N_c1, <<>>, StrVal(<<"x">>), "true", <<>>),
    Inst("alloc", N_c2, <<>>, StrVal(<<"x">>), "true", <<>>),
    Inst("alloc", N_c2, <<>>, TrueVal, "true", <<>>),
    Inst("alloc", N_v1, <<>>, ObjVal(<<>>), "undefined", <<>>),
    Inst("load", N_v1, <<>>, StrVal(<<"m">>), "false", <<>>),
    Inst("store", <<>>, <<N_v1, N_c1>>, NoVal, "undefined", <<>>),
    Inst("call", N_t1, <<<<"C">>, N_v1>>, NoVal, "undefined", <<"C">>),
    Inst("call", <<>>, <<N_f, N_c1>>, NoVal, "undefined", <<>>),
    Inst("create_element", N_e1, <<<<"d">>>>, NoVal, "true", <<>>),
    Inst("create_element", N_e2, <<<<"d">>>>, NoVal, "undefined", <<>>),
    Inst("create_text", N_t1, <<>>, StrVal(<<"t">>), "true", <<>>),
    Inst("set_prop", <<>>, <<N_e1, <<"i">>, N_c1>>, NoVal, "true", <<>>),
    Inst("set_prop", <<>>, <<N_e1, <<"k">>, N_v1>>, NoVal, "false", <<>>),
    Inst("append_child", <<>>, <<N_e1, N_t1>>, NoVal, "undefined", <<>>),
    Inst("mount", <<>>, <<N_e1, N_root>>, NoVal, "undefined", <<>>),
    Inst("patch", <<>>, <<N_e1, N_e2, N_root>>, NoVal, "undefined", <<>>),
    Inst("return", <<>>, <<N_e1>>, NoVal, "undefined", <<>>),
    Inst("return", <<>>, <<>>, NoVal, "undefined", <<>>),
    Inst("assign", N_v1, <<N_c1>>, NoVal, "undefined", <<>>),
    Inst("branch", <<>>, <<N_v1>>, NoVal, "undefined", <<>>),
    Inst("phi", N_v1, <<N_c1, N_c2>>, NoVal, "undefined", <<>>) }

\* n loads of n distinct names, then a return of the first
WideIR(n) ==
  [i \in 1..n |-> Inst("load", newVar(<<"v">>, i - 1), <<>>, StrVal(<<"m">>), "false", <<>>)]
  \o <<Inst("return", <<>>, <<newVar(<<"v">>, 0)>>, NoVal, "undefined", <<>>)>>

GenIRs == SeqsUpTo(InstPool, MaxInsts) \cup {WideIR(n) : n \in 1..MaxNames}

\* the state when generateCode(ir, options) is called on a given IR; an IR
\* whose entry id maps to no block has no instructions to give
InitGen ==
  \E is \in GenIRs, entry \in BOOLEAN :
    /\ entry \/ is = <<>>
    /\ input = <<>>
    /\ pc = "built"
    /\ source = <<>>
    /\ pos = 0
    /\ tokens = <<>>
    /\ tokStart = 0
    /\ tagName = <<>>
    /\ attributes = <<>>
    /\ attrName = <<>>
    /\ expr = <<>>
    /\ depth = 0
    /\ iter = NoIter
    /\ unterminated = FALSE
    /\ ppos = 0
    /\ ast = Node("Program", <<>>, <<>>, <<>>, <<>>, "undefined")
  /\ staticCall = NoStaticCall
    /\ varCounter = 0
    /\ insts = is
    /\ variables = <<>>
    /\ visitResult = <<>>
    /\ failed = FALSE
    /\ hasEntry = entry
    /\ options = OptimizedOptions
    /\ ip = 0
    /\ output = <<>>
    /\ indent = 0
    /\ varMap = <<>>
    /\ staticCache = <<>>
    /\ callNo = 1
    /\ firstCall = NoCall
    /\ mixed = FALSE
  /\ mixed = FALSE

NextGen ==
  \/ GenerateStart
  \/ EmitInstruction
  \/ GenerateReturn

SpecGen == InitGen /\ [][NextGen]_vars

---------------------------------------------------------------------------
(* Several compile calls one after the other.                              *)

\* the sources of the calls
CallInputs ==
  { <<"<","d"," ","i","=","\"","x","\"",">">> \o <<"{","m","}">> \o <<"<","/","d",">">>,
    <<"<","d"," ","k","=","{","y","}",">">> \o <<"t">> \o <<"<","b","/",">">>,
    <<"<","C"," ","p","/",">">>,
    <<"<",">">> }

InitCalls == \E raw \in CallInputs : Started(raw)

\* the next call of compile / compileWithOptions: a new Parser and a new
\* Tokenizer; what the previous call left in the builder and the generator
\* stays until buildSSA and generateCode construct theirs.  The first call's
\* arguments and result are remembered, and whether a call on another source
\* than the first's has been made since.
NextCall ==
  /\ pc \in {"done", "failed"}
  /\ callNo < MaxCalls
  /\ \E raw \in CallInputs :
       /\ input' = raw
       /\ TokenizerInit(raw)
       /\ mixed' = (mixed \/ (callNo > 1 /\ input # firstCall.input))
  /\ ppos' = 0
  /\ staticCall' = NoStaticCall
  /\ pc' = "main"
  /\ callNo' = callNo + 1
  /\ firstCall' = IF callNo = 1
                  THEN [input |-> input, options |-> options, failed |-> failed,
                        output |-> output]
                  ELSE firstCall
  /\ UNCHANGED <<ast, ssaVars, genVars>>

NextCalls ==
  \/ TokenizeIter
  \/ AttrLoopIter
  \/ BraceLoopIter
  \/ OpenTagReturn
  \/ TokenizeReturn
  \/ Parse
  \/ BuildSSA
  \/ GenerateStart
  \/ EmitInstruction
  \/ GenerateReturn
  \/ NextCall

SpecCalls == InitCalls /\ [][NextCalls]_vars

---------------------------------------------------------------------------
(* What the generated statements call.                                     *)

\* the function calls `name(...)` of a statement template whose callee is not
\* a method of a value: <<callee, number of arguments>>
FreeCalls(line) ==
  CASE line.t \in {"element_h", "element_cached_h"} -> {<<<<"h">>, 2>>}
    [] line.t = "mount" -> {<<<<"m","o","u","n","t">>, 2>>}
    [] line.t = "patch" -> {<<<<"p","a","t","c","h">>, 3>>}
    [] line.t = "text_createTextVNode" ->
         {<<<<"c","r","e","a","t","e","T","e","x","t","V","N","o","d","e">>, 1>>}
    [] line.t \in {"call_component", "call_value"} -> {<<line.a[2], Len(line.a) - 2>>}
    [] OTHER -> {}

\* the name a statement declares with const, <<>> when it declares none
Declares(line) ==
  IF line.t \in {"const_value", "const_ref", "const_expr", "call_component", "call_value",
                 "element_cached_open", "element_h", "text_value", "text_createTextVNode"}
  THEN line.a[1]
  ELSE <<>>

\* the three collaborators the factory takes, with the arities of their calls
Collaborators ==
  {<<<<"h">>, 2>>, <<<<"m","o","u","n","t">>, 2>>, <<<<"p","a","t","c","h">>, 3>>}

---------------------------------------------------------------------------
(* Claims.                                                                 *)

\* buildSSA has returned an IR
Built == pc \in {"built", "emit", "done"}

\* C1: every call terminates, because every iteration of the tokenizer's main
\* loop, of the attribute loop of readOpenTag and of the brace-depth loop of
\* readAttribute starts before the end of the source and ends at a later
\* position.  (Stated of the last completed iteration; the code breaks it.)
C1_EveryIterationAdvances ==
  iter.loop # "none" => (iter.from < Len(source) /\ iter.to > iter.from)

\* an argument position that holds a literal: the tag of create_element, the
\* key of set_prop, the component name of call
IsLiteralArg(inst, j) ==
  \/ inst.op = "create_element" /\ j = 1
  \/ inst.op = "set_prop" /\ j = 2
  \/ inst.op = "call" /\ j = 1

\* C2: in the IR buildSSA returns, every argument is the destination of an
\* earlier instruction of the entry block or a literal tag, key or component
\* name.  (The code breaks it.)
C2_ArgsDefinedEarlier ==
  Built =>
    \A i \in 1..Len(insts) : \A j \in 1..Len(insts[i].args) :
      \/ IsLiteralArg(insts[i], j)
      \/ \E k \in 1..(i - 1) : insts[k].dest = insts[i].args[j]

\* C3: in the IR buildSSA returns, every alloc, load, create_element and
\* create_text has its destination among the arguments of a later
\* instruction.  (The code breaks it.)
C3_NoUnreferencedValue ==
  Built =>
    \A i \in 1..Len(insts) :
      insts[i].op \in {"alloc", "load", "create_element", "create_text"} =>
        \E k \in (i + 1)..Len(insts) : \E j \in 1..Len(insts[k].args) :
          insts[k].args[j] = insts[i].dest

\* C4: tokenize never returns tokens for a source in which end-of-input came
\* before the '>' of a tag or the balancing '}' of an expression.  (The code
\* breaks it.)
C4_UnterminatedFails == pc = "tokenized" => ~unterminated

\* the name the generated code gives the value the builder's visit returned
RootName == IF options.minify THEN MapGet(varMap, visitResult) ELSE visitResult

\* C5: for a source with at least one top-level node the output is a factory
\* that returns render(props, state), and the body of render returns the
\* render root.  (The code breaks it.)
C5_RenderReturnsRoot ==
  (pc = "done" /\ ast.children # <<>>) =>
    /\ output[1].t = "factory_open"
    /\ \E i \in 1..Len(output) : output[i].t = "render_open"
    /\ \E i \in 1..Len(output) :
         /\ output[i].t = "return_value"
         /\ visitResult # <<>>
         /\ output[i].a[1] = RootName

\* C6: every function the generated statements call by name is one of the three
\* collaborators, with its arity, or a value an earlier statement of the
\* generated code declares.  (The code breaks it.)
C6_OnlyCollaboratorsCalled ==
  \A i \in 1..Len(output) : \A c \in FreeCalls(output[i]) :
    \/ c \in Collaborators
    \/ \E k \in 1..(i - 1) : Declares(output[k]) = c[1]

\* C7: a call on the source of the first call ends as the first call did: it
\* fails if that failed, and with the same options it returns the same output,
\* whatever calls were made in between.
C7_SameInputSameOutput ==
  (callNo > 1 /\ input = firstCall.input) =>
    /\ pc = "failed" => firstCall.failed
    /\ pc = "done" =>
         /\ ~firstCall.failed
         /\ options = firstCall.options => output = firstCall.output

\* a third call that repeats the first after a call on another source, with
\* the builder's own names in the output
C7_Witness ==
  /\ callNo = 3
  /\ pc = "done"
  /\ mixed
  /\ input = firstCall.input
  /\ options = firstCall.options
  /\ ~options.minify
  /\ \E i \in 1..Len(output) : output[i].t = "set_prop_static"

\* the letters in their order
Letters == <<"a","b","c","d","e","f","g","h","i","j","k","l","m",
             "n","o","p","q","r","s","t","u","v","w","x","y","z">>

\* position of a letter in a..z
LetterIndex(c) == CHOOSE i \in 1..26 : Letters[i] = c

\* x comes before y in the order of a, b, ..., z and then the longer names
RECURSIVE LexLess(_, _)
LexLess(x, y) ==
  /\ y # <<>>
  /\ \/ x = <<>>
     \/ LetterIndex(Head(x)) < LetterIndex(Head(y))
     \/ Head(x) = Head(y) /\ LexLess(Tail(x), Tail(y))
NameLess(x, y) == Len(x) < Len(y) \/ (Len(x) = Len(y) /\ LexLess(x, y))

IsPrefix(s, t) == Len(s) <= Len(t) /\ SubSeq(t, 1, Len(s)) = s

\* the renaming of a minifying generator is one-to-one, starts at "a" and
\* gives later names to names first used later
MinifyInjective ==
  options.minify =>
    /\ \A i, j \in 1..Len(varMap) :
         i # j => (varMap[i][1] # varMap[j][1] /\ varMap[i][2] # varMap[j][2])
    /\ varMap # <<>> => varMap[1][2] = <<"a">>
    /\ \A i \in 1..(Len(varMap) - 1) : NameLess(varMap[i][2], varMap[i + 1][2])

\* C8: with minify, within one generation call getVarName is injective, the
\* first name used receives "a", short names are handed out in first-use
\* order, and a name keeps the short name it was first given.
C8_MinifyUnique ==
  /\ []MinifyInjective
  /\ [][pc = "emit" => IsPrefix(varMap, varMap')]_vars

\* a finished minified generation of more than 26 names that used its first
\* name again at the end
C8_Witness ==
  /\ pc = "done"
  /\ options.minify
  /\ Len(varMap) > 26
  /\ \E i \in 1..Len(output) : output[i].t = "return_value" /\ output[i].a = <<varMap[1][2]>>

\* the k-th term of a, b, ..., z, aa, ab, ...
RECURSIVE KthName(_)
KthName(k) ==
  LET c == <<Letters[((k - 1) % 26) + 1]>>
  IN IF k <= 26 THEN c ELSE KthName((k - 1) \div 26) \o c

\* C9: with minify, the k-th distinct name used in a generation call receives
\* the k-th term of a, b, ..., z, aa, ab, ...  (The code breaks it at k = 27.)
C9_KthNameSequence ==
  options.minify => \A k \in 1..Len(varMap) : varMap[k][2] = KthName(k)

\* the input holds neither '<' nor '{'
NoMarkup(s) == \A i \in 1..Len(s) : s[i] \notin {"<", "{"}

\* C10 as claimed: an input with neither '<' nor '{' gives exactly a text token
\* with the trimmed input and eof, also when the input is empty or blank.
C10_TextThenEof ==
  (pc = "tokenized" /\ NoMarkup(input)) =>
    tokens = <<Token("text", Trim(input), NoData), Token("eof", <<>>, NoData)>>

\* C10: an input with neither '<' nor '{' gives exactly a text token with the
\* trimmed input and eof when the trimmed input is not empty, and eof alone
\* when it is.
C10_TextThenEofUnlessBlank ==
  (pc = "tokenized" /\ NoMarkup(input)) =>
    tokens = IF Trim(input) = <<>>
             THEN <<Token("eof", <<>>, NoData)>>
             ELSE <<Token("text", Trim(input), NoData), Token("eof", <<>>, NoData)>>

\* a text with whitespace around it and inside it, tokenized
C10_Witness ==
  /\ pc = "tokenized"
  /\ NoMarkup(input)
  /\ Len(source) < Len(input)
  /\ \E i \in 1..Len(source) : source[i] \in WsChars
  /\ Len(tokens) = 2

\* number of '{' minus number of '}' at the offsets a..b of src
RECURSIVE BraceBalance(_, _, _)
BraceBalance(src, a, b) ==
  IF b < a THEN 0
  ELSE BraceBalance(src, a, b - 1)
       + (IF src[b + 1] = "{" THEN 1 ELSE IF src[b + 1] = "}" THEN -1 ELSE 0)

\* the offsets at which the brace opened at offset a is balanced
Balancing(src, a) == {q \in (a + 1)..(Len(src) - 1) : BraceBalance(src, a, q) = 0}

\* the offset of the '}' that matches the '{' at offset a
MatchingBrace(src, a) ==
  CHOOSE q \in Balancing(src, a) : \A r \in Balancing(src, a) : q <= r

\* the offset of the '{' of the expression read by the last main iteration
ExprStart == CHOOSE q \in iter.from..(Len(source) - 1) :
               source[q + 1] = "{" /\ \A r \in iter.from..(q - 1) : source[r + 1] # "{"

\* the last main iteration read an expression whose braces are balanced
ReadBalancedExpr ==
  /\ pc = "main"
  /\ iter.loop = "main"
  /\ tokens # <<>>
  /\ tokens[Len(tokens)].type = "expr"
  /\ Balancing(source, ExprStart) # {}

\* C11 as claimed: for an expression with balanced braces the token's payload
\* is exactly the text between the outer '{' and its matching '}', and the
\* cursor ends right after that '}'.
C11_ExprExactInnerText ==
  ReadBalancedExpr =>
    LET m == MatchingBrace(source, ExprStart)
    IN /\ tokens[Len(tokens)].value = Slice(source, ExprStart + 1, m)
       /\ pos = m + 1

\* C11: for an expression with balanced braces the token's payload is the
\* text between the outer '{' and its matching '}' with the whitespace at its
\* two ends removed and every nested brace kept, and the cursor ends right
\* after that '}'.
C11_ExprTrimmedInnerText ==
  ReadBalancedExpr =>
    LET m == MatchingBrace(source, ExprStart)
    IN /\ tokens[Len(tokens)].value = Trim(Slice(source, ExprStart + 1, m))
       /\ pos = m + 1

\* an expression with a nested pair of braces has been read
C11_Witness ==
  /\ ReadBalancedExpr
  /\ \E i \in 1..Len(tokens[Len(tokens)].value) : tokens[Len(tokens)].value[i] = "{"
  /\ \E i \in 1..Len(tokens[Len(tokens)].value) : tokens[Len(tokens)].value[i] = "}"

\* the positions of the top-level Element nodes of the AST that have a tag
TopElements ==
  {c \in 1..Len(ast.children) :
     ast.children[c].type = "Element" /\ ast.children[c].tag # <<>>}

\* C12: for every top-level element, every literal attribute of it and every
\* expression child of it, the IR buildSSA returns holds, in this order, a
\* create_element of the tag, a set_prop of the attribute's key on it whose
\* value argument is the destination of an earlier static alloc holding the
\* literal, a non-static load of the expression's text, and an append_child
\* of that load to the element.  (The code breaks it.)
C12_ElementAttrExprOrder ==
  Built =>
    \A c \in TopElements :
      LET node == ast.children[c]
      IN \A a \in 1..Len(node.attributes) : \A x \in 1..Len(node.children) :
           (~IsDynamicMarker(node.attributes[a][2]) /\ node.children[x].type = "Expression") =>
             \E i, j, k, l \in 1..Len(insts) :
               /\ i < j /\ j < k /\ k < l
               /\ insts[i].op = "create_element"
               /\ insts[i].args = <<node.tag>>
               /\ insts[j].op = "set_prop"
               /\ Len(insts[j].args) = 3
               /\ insts[j].args[1] = insts[i].dest
               /\ insts[j].args[2] = node.attributes[a][1]
               /\ \E v \in 1..(j - 1) :
                    /\ insts[v].op = "alloc"
                    /\ insts[v].isStatic = "true"
                    /\ insts[v].value = AttrVal(node.attributes[a][2])
                    /\ insts[v].dest = insts[j].args[3]
               /\ insts[k].op = "load"
               /\ insts[k].isStatic = "false"
               /\ insts[k].value = StrVal(node.children[x].value)
               /\ insts[l].op = "append_child"
               /\ insts[l].args = <<insts[i].dest, insts[k].dest>>

\* the node, or a node below it at any depth, is an Element or Component
\* without a tag name
RECURSIVE HasTaglessNode(_)
HasTaglessNode(node) ==
  \/ node.type \in {"Element", "Component"} /\ node.tag = <<>>
  \/ \E i \in 1..Len(node.children) : HasTaglessNode(node.children[i])

\* C13: when the AST holds, at any depth, an Element or Component without a
\* tag name, buildSSA throws and the compile call returns no output.  (The
\* code breaks it.)
C13_TaglessNodeFails ==
  (pc \in {"built", "failed", "emit", "done"} /\ HasTaglessNode(ast)) =>
    (pc = "failed" /\ output = <<>>)

\* the ops the generator has a statement for
EmittedOps == {"alloc", "load", "store", "call", "create_element", "create_text",
               "set_prop", "append_child", "mount", "patch", "return"}

\* the instructions of a list whose op the generator has a statement for
RECURSIVE OnlyEmitted(_)
OnlyEmitted(is) ==
  IF is = <<>> THEN <<>>
  ELSE (IF Head(is).op \in EmittedOps THEN <<Head(is)>> ELSE <<>>) \o OnlyEmitted(Tail(is))

\* the generator after the instruction loop over a whole list
RECURSIVE EmitAll(_, _, _)
EmitAll(g, o, is) ==
  IF is = <<>> THEN g ELSE EmitAll(emitInstruction(g, o, Head(is)), o, Tail(is))

\* the lines of a generation from an entry block with the given instructions
GeneratedFrom(is, o) ==
  LET g1 == indentInc(EmitLine(emitHeader(NewGenerator, o), o, "render_open", <<>>))
      g2 == EmitLine(indentDec(EmitAll(g1, o, is)), o, "render_close", <<>>)
  IN emitFooter(g2, o).output

\* C14: a generation from an entry block that holds assign, branch or phi
\* instructions returns exactly the lines of a generation from the same block
\* without them; a generation from an IR without an entry block returns the
\* header and the footer only: no render function, no instruction statement.
C14_AnomaliesSkipped ==
  pc = "done" =>
    IF hasEntry
    THEN (\E i \in 1..Len(insts) : insts[i].op \notin EmittedOps) =>
           output = GeneratedFrom(OnlyEmitted(insts), options)
    ELSE \A i \in 1..Len(output) :
           output[i].t \in {"factory_open", "use_strict", "cache_decl", "factory_close"}

\* a finished generation from a block with an unknown op before an emitted one
C14_Witness ==
  /\ pc = "done"
  /\ hasEntry
  /\ Len(insts) = 2
  /\ insts[1].op \in {"assign", "branch", "phi"}
  /\ insts[2].op \in EmittedOps
  /\ Len(output) > 5

\* the step is one iteration of the instruction loop, on an alloc
EmitsAlloc ==
  /\ pc = "emit"
  /\ ip < Len(insts)
  /\ ip' = ip + 1
  /\ insts[ip + 1].op = "alloc"

\* the statically flagged allocs before position i with the serialized value v
EarlierStatic(i, v) ==
  {k \in 1..(i - 1) :
     insts[k].op = "alloc" /\ insts[k].isStatic = "true" /\ JsonStringify(insts[k].value) = v}

\* what an alloc step adds to the output: one const statement of the alloc's
\* name; under staticOptimization a statically flagged alloc whose serialized
\* value an earlier statically flagged alloc had refers to the name of the
\* first of those, which an earlier line declares; any other alloc carries
\* its own literal
AllocStep ==
  EmitsAlloc =>
    LET inst == insts[ip + 1]
        lit == JsonStringify(inst.value)
        earlier == EarlierStatic(ip + 1, lit)
        line == output'[Len(output')]
        NameOf(d) == IF options.minify THEN MapGet(varMap', d) ELSE d
    IN /\ Len(output') = Len(output) + 1
       /\ line.a[1] = NameOf(inst.dest)
       /\ IF options.staticOptimization /\ inst.isStatic = "true" /\ earlier # {}
          THEN LET first == CHOOSE k \in earlier : \A m \in earlier : k <= m
               IN /\ line.t = "const_ref"
                  /\ line.a[2] = NameOf(insts[first].dest)
                  /\ \E j \in 1..Len(output) :
                       output[j].t = "const_value" /\ Declares(output[j]) = line.a[2]
          ELSE /\ line.t = "const_value"
               /\ line.a[2] = lit

\* C15: with staticOptimization the first statically flagged alloc of a
\* serialized value emits the literal and every later one a reference to the
\* name of that first alloc, declared earlier in the output; without it every
\* alloc emits its own literal.
C15_StaticLiteralOnce == [][AllocStep]_vars

\* a finished minified generation in which the second of two static allocs of
\* one value refers to the first
C15_Witness ==
  /\ pc = "done"
  /\ options.staticOptimization
  /\ options.minify
  /\ Len(insts) = 2
  /\ insts[1].dest # insts[2].dest
  /\ \E i \in 1..Len(output) :
       /\ output[i].t = "const_ref"
       /\ output[i].a = <<<<"b">>, <<"a">>>>
       /\ output[i - 1].t = "const_value"
       /\ output[i - 1].a[1] = <<"a">>

\* an attribute value of the shape {...}: what the tokenizer stores for a
\* braced value
IsBraceMarker(v) == ~v.b /\ Len(v.s) >= 2 /\ v.s[1] = "{" /\ v.s[Len(v.s)] = "}"

\* static as claimed: an Expression is not, a Text is, an Element or Component
\* is unless an attribute value of its own is a {...} marker or a child is
\* not static, and a node of any other kind is
RECURSIVE ClaimedStatic(_)
ClaimedStatic(node) ==
  CASE node.type = "Expression" -> FALSE
    [] node.type = "Text" -> TRUE
    [] node.type \in {"Element", "Component"} ->
         /\ \A i \in 1..Len(node.attributes) : ~IsBraceMarker(node.attributes[i][2])
         /\ \A i \in 1..Len(node.children) : ClaimedStatic(node.children[i])
    [] OTHER -> TRUE

\* C16: isStaticNode returns, for every Expression, Text, Element and
\* Component of a parsed AST, false for an Expression, true for a Text, and
\* false for an Element or Component exactly when an attribute value of its
\* own is a {...} marker or a child is not static; a quoted literal never
\* makes a node non-static.  (The code breaks it.)
C16_StaticAsClaimed ==
  (staticCall.called /\ staticCall.node.type # "Program") =>
    staticCall.result = ClaimedStatic(staticCall.node)

\* an argument that holds a name minted by constantFolding
IsFoldName(arg) == Len(arg) > Len(P_fold) /\ SubSeq(arg, 1, Len(P_fold)) = P_fold

\* the argument positions <<i, j>> of the IR that hold a minted alias
FoldPositions ==
  {p \in (1..Len(insts)) \X (1..3) :
     p[2] <= Len(insts[p[1]].args) /\ ~IsLiteralArg(insts[p[1]], p[2])
     /\ IsFoldName(insts[p[1]].args[p[2]])}

\* C17: in the IR buildSSA returns no two instructions have the same
\* destination, and no alias minted by constantFolding equals a destination
\* or another minted alias.
C17_UniqueNames ==
  Built =>
    /\ \A i, k \in 1..Len(insts) :
         (i # k /\ insts[i].dest # <<>>) => insts[i].dest # insts[k].dest
    /\ \A p \in FoldPositions :
         /\ \A k \in 1..Len(insts) : insts[k].dest # insts[p[1]].args[p[2]]
         /\ \A q \in FoldPositions :
              p # q => insts[p[1]].args[p[2]] # insts[q[1]].args[q[2]]

\* an IR with several destinations of one prefix and several minted aliases
C17_Witness ==
  /\ Built
  /\ Cardinality(FoldPositions) >= 3
  /\ Cardinality({i \in 1..Len(insts) : insts[i].op = "create_element"}) >= 2
  /\ Cardinality({i \in 1..Len(insts) : insts[i].op = "alloc"}) >= 3

\* the instructions the visit of the AST emits, before optimize()
Visited == visitNode(NewBuilder, ast).b.insts

\* the text of a {...} marker with the outer braces removed
Unbraced(v) == SubSeq(v.s, 2, Len(v.s) - 1)

\* C18: in what the builder emits, every set_prop comes right after the
\* instruction that produced its value argument: a statically flagged alloc,
\* and then the set_prop is flagged static, or a non-static load, and then
\* the set_prop is flagged non-static; and every attribute of a top-level
\* element has its set_prop, after an alloc of the value when that is a
\* literal and after a load of the text inside the braces when it is a {...}
\* marker.  (The code breaks it.)
C18_AttributeFlags ==
  Built =>
    /\ \A j \in 1..Len(Visited) :
         Visited[j].op = "set_prop" =>
           /\ j > 1
           /\ Visited[j - 1].dest = Visited[j].args[3]
           /\ \/ /\ Visited[j - 1].op = "alloc"
                 /\ Visited[j - 1].isStatic = "true"
                 /\ Visited[j].isStatic = "true"
              \/ /\ Visited[j - 1].op = "load"
                 /\ Visited[j - 1].isStatic = "false"
                 /\ Visited[j].isStatic = "false"
    /\ \A c \in TopElements : \A a \in 1..Len(ast.children[c].attributes) :
         LET key == ast.children[c].attributes[a][1]
             v == ast.children[c].attributes[a][2]
         IN \E j \in 2..Len(Visited) :
              /\ Visited[j].op = "set_prop"
              /\ Visited[j].args[2] = key
              /\ IF IsBraceMarker(v)
                 THEN Visited[j - 1].op = "load" /\ Visited[j - 1].value = StrVal(Unbraced(v))
                 ELSE Visited[j - 1].op = "alloc" /\ Visited[j - 1].value = AttrVal(v)

\* C19: when the last top-level node of the AST is an Element, a
\* create_element of its tag whose destination is the name the visit
\* returned, the render root, is in the IR buildSSA returns.  (The code
\* breaks it.)
C19_RootElementKept ==
  (Built /\ ast.children # <<>> /\ ast.children[Len(ast.children)].type = "Element") =>
    \E i \in 1..Len(insts) :
      /\ insts[i].op = "create_element"
      /\ insts[i].dest = visitResult
      /\ insts[i].args = <<ast.children[Len(ast.children)].tag>>

\* the identifiers the generated code uses for something else: the factory's
\* and render's parameters, the helper names, and the reserved words of two
\* letters
TakenIdentifiers ==
  { <<"h">>, <<"m","o","u","n","t">>, <<"p","a","t","c","h">>,
    <<"p","r","o","p","s">>, <<"s","t","a","t","e">>,
    <<"e","l">>, <<"_","c","a","c","h","e">>,
    <<"d","o">>, <<"i","f">>, <<"i","n">> }

\* C20: with minify no short name getVarName hands out is an identifier the
\* generated code uses for something else or a reserved word.  (The code
\* breaks it.)
C20_ShortNamesFree ==
  options.minify => \A k \in 1..Len(varMap) : varMap[k][2] \notin TakenIdentifiers

\* the statement reads or writes _cache
UsesCache(line) == line.t \in {"element_cached_open", "element_cached_set"}

\* C21: every statement of the output that reads or writes _cache comes after
\* the header's declaration of _cache.  (The code breaks it.)
C21_CacheDeclared ==
  \A i \in 1..Len(output) :
    UsesCache(output[i]) => \E k \in 1..(i - 1) : output[k].t = "cache_decl"

\* the number of nodes below a node, at any depth
RECURSIVE CountBelow(_)
RECURSIVE CountChildren(_)
CountChildren(children) ==
  IF children = <<>> THEN 0
  ELSE 1 + CountBelow(Head(children)) + CountChildren(Tail(children))
CountBelow(node) == CountChildren(node.children)

\* parse() has returned
Parsed == pc \in {"parsed", "built", "failed", "emit", "done"}

\* C22: when parse returns, the parser's position is at the eof token and the
\* Program tree has one node for every text, expr, open and selfClose token.
\* (The code breaks it.)
C22_AllTokensParsed ==
  Parsed =>
    /\ ppos = Len(tokens) - 1
    /\ CountBelow(ast) =
         Cardinality({i \in 1..Len(tokens) :
                        tokens[i].type \in {"text", "expr", "open", "selfClose"}})

\* the Elements of the AST the builder visits, in the order of their visits:
\* an Element before its children, nothing below a Component
RECURSIVE VisitedElements(_)
RECURSIVE VisitedElementsOf(_)
VisitedElementsOf(children) ==
  IF children = <<>> THEN <<>>
  ELSE VisitedElements(Head(children)) \o VisitedElementsOf(Tail(children))
VisitedElements(node) ==
  CASE node.type = "Element" -> <<node>> \o VisitedElementsOf(node.children)
    [] node.type = "Program" -> VisitedElementsOf(node.children)
    [] OTHER -> <<>>

IsCreateElement(inst) == inst.op = "create_element"

\* the create_element instructions the visit emits, in their order
CreateElements == SelectSeq(Visited, IsCreateElement)

\* the name the generated code gives a destination
GeneratedName(d) == IF options.minify THEN MapGet(varMap, d) ELSE d

\* C23: the create_element built for an Element is flagged static exactly
\* when isStaticNode is true for the Element, and with inlineCache the
\* statement generated for a create_element of the returned IR is the
\* cache-wrapped creation when isStaticNode is true and the plain h(tag, {})
\* when it is false.  (The code breaks it.)
C23_StaticElementsCached ==
  Built =>
    LET els == VisitedElements(ast)
    IN /\ Len(CreateElements) = Len(els)
       /\ \A i \in 1..Len(els) :
            /\ CreateElements[i].args = <<els[i].tag>>
            /\ (CreateElements[i].isStatic = "true") = isStaticNode(els[i])
            /\ (pc = "done" /\ options.inlineCache
                  /\ \E k \in 1..Len(insts) : insts[k].dest = CreateElements[i].dest) =>
                 \E j \in 1..Len(output) :
                   /\ Declares(output[j]) = GeneratedName(CreateElements[i].dest)
                   /\ output[j].t = IF isStaticNode(els[i])
                                    THEN "element_cached_open" ELSE "element_h"

====
